---- MODULE Spec2Model ----
(***************************************************************************)
(* Model of the daily logging workflow of github-automation-log:           *)
(*   github_daily_logger.py  (command line entry point, with push)         *)
(*   update_daily_log.py     (GitHub Actions entry point, without push)    *)
(*                                                                         *)
(* Text is a sequence of one-character strings.  The log file on disk is   *)
(* a record [exists, content] whose content is the raw characters stored   *)
(* in the file; Python's text layer (universal newlines on read,           *)
(* os.linesep on write) sits between the file and the program.             *)
(* The version-control client is an external process: every invocation     *)
(* returns a nondeterministic exit code, and a successful `git add` or     *)
(* `git commit` has its effect on the index or on the history.             *)
(* The platform is POSIX (os.linesep is "\n"); file system calls succeed.  *)
(***************************************************************************)
EXTENDS Integers, Sequences, FiniteSets, TLC

\* ------------------------------------------------------------------ bounds
MaxRuns == 2
MaxTicks == 2
TickSeconds == 43201

\* ------------------------------------------------------------------ text
LF == "\n"
CR == "\r"

Digits == <<"0", "1", "2", "3", "4", "5", "6", "7", "8", "9">>

UpperLetters ==
    <<"A", "B", "C", "D", "E", "F", "G", "H", "I", "J", "K", "L", "M",
      "N", "O", "P", "Q", "R", "S", "T", "U", "V", "W", "X", "Y", "Z">>

LowerLetters ==
    <<"a", "b", "c", "d", "e", "f", "g", "h", "i", "j", "k", "l", "m",
      "n", "o", "p", "q", "r", "s", "t", "u", "v", "w", "x", "y", "z">>

Pow10(k) == IF k = 0 THEN 1 ELSE IF k = 1 THEN 10 ELSE IF k = 2 THEN 100 ELSE 1000

\* "%02d", "%04d", strftime's %Y %m %d %H %M %S: zero padded decimal of width w
Pad(n, w) == [i \in 1..w |-> Digits[((n \div Pow10(w - i)) % 10) + 1]]

\* str.endswith
endswith(s, c) == Len(s) > 0 /\ s[Len(s)] = c

\* Python's  needle in hay  on str: needle occurs at some offset of hay
str_in(needle, hay) ==
    \E i \in 1..(Len(hay) - Len(needle) + 1) : SubSeq(hay, i, i + Len(needle) - 1) = needle

lower_char(c) ==
    IF \E k \in 1..26 : UpperLetters[k] = c
    THEN LowerLetters[CHOOSE k \in 1..26 : UpperLetters[k] = c]
    ELSE c

\* str.lower
lower(s) == [i \in 1..Len(s) |-> lower_char(s[i])]

\* "".join(pieces[lo..hi])
RECURSIVE join(_, _, _)
join(pieces, lo, hi) ==
    IF lo > hi THEN <<>>
    ELSE IF lo = hi THEN pieces[lo]
    ELSE LET mid == (lo + hi) \div 2
         IN join(pieces, lo, mid) \o join(pieces, mid + 1, hi)

\* text mode read (newline=None): "\r\n" and "\r" are translated to "\n"
universal_newlines(raw) ==
    LET piece(i) == IF raw[i] = CR /\ i < Len(raw) /\ raw[i + 1] = LF THEN <<>>
                    ELSE IF raw[i] = CR THEN <<LF>>
                    ELSE <<raw[i]>>
    IN join([i \in 1..Len(raw) |-> piece(i)], 1, Len(raw))

os_linesep == <<LF>>

\* text mode write (newline=None): "\n" is translated to os.linesep
translate_linesep(text) ==
    join([i \in 1..Len(text) |-> IF text[i] = LF THEN os_linesep ELSE <<text[i]>>], 1, Len(text))

\* Path.read_text(encoding='utf-8') of an existing file
read_text(file) == universal_newlines(file.content)

\* Path.write_text(text): the file is created or replaced as a whole
write_text(text) == [exists |-> TRUE, content |-> translate_linesep(text)]

NoFile == [exists |-> FALSE, content |-> <<>>]

\* ------------------------------------------------------------------ fixed texts
EntryOpen ==
    <<"[">>

EntryDaily ==
    <<"]", " ", "D", "a", "i", "l", "y", " ", "a", "u", "t", "o", "m", "a", "t", "i", "o", "n",
      ":", " ", "U", "p", "d", "a", "t", "e", "d", " ", "l", "e", "a", "r", "n", "i", "n", "g",
      " ", "l", "o", "g", " ", "o", "n", " ">>

EntryPerformed ==
    <<".", " ", "P", "e", "r", "f", "o", "r", "m", "e", "d", " ", "s", "y", "s", "t", "e", "m",
      " ", "m", "a", "i", "n", "t", "e", "n", "a", "n", "c", "e", ",", " ", "r", "e", "v", "i",
      "e", "w", "e", "d", " ", "d", "o", "c", "u", "m", "e", "n", "t", "a", "t", "i", "o", "n",
      ",", " ", "a", "n", "d", " ", "p", "r", "a", "c", "t", "i", "c", "e", "d", " ", "a", "u",
      "t", "o", "m", "a", "t", "i", "o", "n", " ", "w", "o", "r", "k", "f", "l", "o", "w", "s",
      ".", " ">>

EntryTaskId ==
    <<"T", "a", "s", "k", " ", "I", "D", ":", " ", "A", "U", "T", "O", "-">>

LoggerHeader ==
    <<>>

ActionsHeader ==
    <<"#", " ", "L", "e", "a", "r", "n", "i", "n", "g", " ", "L", "o", "g", LF, LF, "T", "h",
      "i", "s", " ", "f", "i", "l", "e", " ", "t", "r", "a", "c", "k", "s", " ", "d", "a", "i",
      "l", "y", " ", "l", "e", "a", "r", "n", "i", "n", "g", " ", "a", "c", "t", "i", "v", "i",
      "t", "i", "e", "s", " ", "a", "n", "d", " ", "s", "y", "s", "t", "e", "m", " ", "m", "a",
      "i", "n", "t", "e", "n", "a", "n", "c", "e", " ", "t", "a", "s", "k", "s", ".", LF, LF>>

CommitMessagePrefix ==
    <<"d", "o", "c", "s", ":", " ", "U", "p", "d", "a", "t", "e", " ", "d", "a", "i", "l", "y",
      " ", "l", "e", "a", "r", "n", "i", "n", "g", " ", "l", "o", "g", " ", "f", "o", "r", " ">>

NothingToCommit ==
    <<"n", "o", "t", "h", "i", "n", "g", " ", "t", "o", " ", "c", "o", "m", "m", "i", "t">>

WeekdayNames ==
    <<<<"S", "u", "n", "d", "a", "y">>,
      <<"M", "o", "n", "d", "a", "y">>,
      <<"T", "u", "e", "s", "d", "a", "y">>,
      <<"W", "e", "d", "n", "e", "s", "d", "a", "y">>,
      <<"T", "h", "u", "r", "s", "d", "a", "y">>,
      <<"F", "r", "i", "d", "a", "y">>,
      <<"S", "a", "t", "u", "r", "d", "a", "y">>>>

\* what the client may print on standard error when a commit exits non-zero
StderrClean ==
    <<"n", "o", "t", "h", "i", "n", "g", " ", "t", "o", " ", "c", "o", "m", "m", "i", "t", ",",
      " ", "w", "o", "r", "k", "i", "n", "g", " ", "t", "r", "e", "e", " ", "c", "l", "e", "a",
      "n">>

StderrCaps ==
    <<"O", "n", " ", "b", "r", "a", "n", "c", "h", " ", "m", "a", "i", "n", LF, "N", "o", "t",
      "h", "i", "n", "g", " ", "t", "o", " ", "c", "o", "m", "m", "i", "t">>

StderrIdentity ==
    <<"f", "a", "t", "a", "l", ":", " ", "u", "n", "a", "b", "l", "e", " ", "t", "o", " ", "a",
      "u", "t", "o", "-", "d", "e", "t", "e", "c", "t", " ", "e", "m", "a", "i", "l", " ", "a",
      "d", "d", "r", "e", "s", "s">>

StderrSamples == {StderrClean, StderrCaps, StderrIdentity, <<>>}

\* ------------------------------------------------------------------ the clock
\* a wall clock reading: calendar date and second of the day
IsLeap(y) == (y % 4 = 0 /\ y % 100 # 0) \/ y % 400 = 0

DaysInMonth(y, m) ==
    IF m = 2 THEN (IF IsLeap(y) THEN 29 ELSE 28)
    ELSE IF m \in {4, 6, 9, 11} THEN 30 ELSE 31

NextDay(t) ==
    IF t.day < DaysInMonth(t.year, t.month) THEN [t EXCEPT !.day = t.day + 1]
    ELSE IF t.month < 12 THEN [t EXCEPT !.day = 1, !.month = t.month + 1]
    ELSE [t EXCEPT !.day = 1, !.month = 1, !.year = t.year + 1]

\* the clock reading n seconds after t, for n of at most a day
AddSeconds(t, n) ==
    IF t.sec + n < 86400 THEN [t EXCEPT !.sec = t.sec + n]
    ELSE [NextDay(t) EXCEPT !.sec = t.sec + n - 86400]

\* day of the week, 0 = Sunday
MonthOffsets == <<0, 3, 2, 5, 0, 3, 5, 1, 4, 6, 2, 4>>

DayOfWeek(t) ==
    LET y == IF t.month < 3 THEN t.year - 1 ELSE t.year
    IN (y + (y \div 4) - (y \div 100) + (y \div 400) + MonthOffsets[t.month] + t.day) % 7

\* strftime("%Y-%m-%d")
strftime_date(t) == Pad(t.year, 4) \o <<"-">> \o Pad(t.month, 2) \o <<"-">> \o Pad(t.day, 2)

\* strftime("%H:%M:%S")
strftime_time(t) ==
    Pad(t.sec \div 3600, 2) \o <<":">> \o Pad((t.sec \div 60) % 60, 2) \o <<":">> \o Pad(t.sec % 60, 2)

\* strftime("%Y-%m-%d %H:%M:%S")
strftime_timestamp(t) == strftime_date(t) \o <<" ">> \o strftime_time(t)

\* strftime("%Y%m%d")
strftime_compact(t) == Pad(t.year, 4) \o Pad(t.month, 2) \o Pad(t.day, 2)

\* strftime("%A")
strftime_weekday(t) == WeekdayNames[DayOfWeek(t) + 1]

StartClock == [year |-> 2024, month |-> 2, day |-> 28, sec |-> 86399]

\* hash(timestamp) is salted per process and may be negative; no step reads the
\* task id, so the workflow is explored with one value and the functions with more
HashSamples == {-1}

\* ------------------------------------------------------------------ functions of the program
\* variant: the timestamp is formatted without its date
generate_daily_entry_no_date(now, h) ==
    EntryOpen \o strftime_time(now) \o EntryDaily \o strftime_weekday(now)
        \o EntryPerformed
        \o EntryTaskId \o Pad(h % 10000, 4)

generate_daily_entry(now, h) ==
    EntryOpen \o strftime_timestamp(now) \o EntryDaily \o strftime_weekday(now)
        \o EntryPerformed
        \o EntryTaskId \o strftime_compact(now) \o <<"-">> \o Pad(h % 10000, 4)

\* variant: no newline is inserted after content that lacks one
append_entry_no_separator(file, log_entry, header) ==
    LET created == IF ~file.exists THEN write_text(header) ELSE file
        content == read_text(created)
    IN write_text(content \o log_entry \o <<LF>>)

append_entry(file, log_entry, header) ==
    LET created == IF ~file.exists THEN write_text(header) ELSE file
        content == read_text(created)
        separated == IF content # <<>> /\ ~endswith(content, LF)
                     THEN Append(content, LF) ELSE content
    IN write_text(separated \o log_entry \o <<LF>>)

\* github_daily_logger.create_or_update_log_file
create_or_update_log_file(file, log_entry) == append_entry(file, log_entry, LoggerHeader)

\* update_daily_log.create_or_update_log_file
actions_create_or_update_log_file(file, log_entry) == append_entry(file, log_entry, ActionsHeader)

\* variant: the whole content is compared with the date
check_whole_content(file, today_str) ==
    IF ~file.exists THEN FALSE
    ELSE today_str = read_text(file)

\* variant: the date is looked for at the start of the content only
check_startswith(file, today_str) ==
    IF ~file.exists THEN FALSE
    ELSE LET content == read_text(file)
         IN Len(today_str) <= Len(content) /\ SubSeq(content, 1, Len(today_str)) = today_str

check_if_already_logged_today(file, today_str) ==
    IF ~file.exists THEN FALSE
    ELSE str_in(today_str, read_text(file))

commit_message(today_str) == CommitMessagePrefix \o today_str

\* variant: standard error has to be the phrase itself
is_nothing_to_commit_exact(stderr) == lower(stderr) = NothingToCommit

\* stderr of a failed commit is the benign case
is_nothing_to_commit(stderr) == str_in(NothingToCommit, lower(stderr))

\* one external command as run_command reports it, tagged with the step that ran it
Call(step, cmd, rc, stdout, stderr) ==
    [step |-> step, cmd |-> cmd, rc |-> rc, stdout |-> stdout, stderr |-> stderr]

\* a step of main that runs no external command
Step(step) == Call(step, "-", 0, <<>>, <<>>)

\* variant: only the exit codes are looked at
check_git_config_rc_only(version, user, email) ==
    LET v == Call("preflight", "git --version", version.rc, version.stdout, <<>>)
        u == Call("preflight", "git config --get user.name", user.rc, user.stdout, <<>>)
        e == Call("preflight", "git config --get user.email", email.rc, email.stdout, <<>>)
    IN IF version.rc # 0 THEN [ok |-> FALSE, calls |-> <<v>>]
       ELSE IF user.rc # 0 THEN [ok |-> FALSE, calls |-> <<v, u, e>>]
       ELSE IF email.rc # 0 THEN [ok |-> FALSE, calls |-> <<v, u, e>>]
       ELSE [ok |-> TRUE, calls |-> <<v, u, e>>]

\* check_git_config: version, user, email are the replies [rc, stdout] of
\* git --version, git config --get user.name, git config --get user.email
check_git_config(version, user, email) ==
    LET v == Call("preflight", "git --version", version.rc, version.stdout, <<>>)
        u == Call("preflight", "git config --get user.name", user.rc, user.stdout, <<>>)
        e == Call("preflight", "git config --get user.email", email.rc, email.stdout, <<>>)
    IN IF version.rc # 0 THEN [ok |-> FALSE, calls |-> <<v>>]
       ELSE IF user.rc # 0 \/ user.stdout = <<>> THEN [ok |-> FALSE, calls |-> <<v, u, e>>]
       ELSE IF email.rc # 0 \/ email.stdout = <<>> THEN [ok |-> FALSE, calls |-> <<v, u, e>>]
       ELSE [ok |-> TRUE, calls |-> <<v, u, e>>]

\* get_current_repo_info: a dict (ok) or None; it stops at the first command that fails
get_current_repo_info(toplevel_rc, remote_rc, branch_rc) ==
    LET c1 == Call("resolve", "git rev-parse --show-toplevel", toplevel_rc, <<>>, <<>>)
        c2 == Call("resolve", "git config --get remote.origin.url", remote_rc, <<>>, <<>>)
        c3 == Call("resolve", "git rev-parse --abbrev-ref HEAD", branch_rc, <<>>, <<>>)
    IN IF toplevel_rc # 0 THEN [ok |-> FALSE, calls |-> <<c1>>]
       ELSE IF remote_rc # 0 THEN [ok |-> FALSE, calls |-> <<c1, c2>>]
       ELSE IF branch_rc # 0 THEN [ok |-> FALSE, calls |-> <<c1, c2, c3>>]
       ELSE [ok |-> TRUE, calls |-> <<c1, c2, c3>>]

\* variant: a failed git add does not return
stage_and_commit_changes_no_return(add_rc, commit_rc, stderr) ==
    LET add == Call("stage", "git add", add_rc, <<>>, <<>>)
        commit == Call("commit", "git commit", commit_rc, <<>>, stderr)
    IN IF commit_rc # 0
       THEN IF is_nothing_to_commit(stderr)
            THEN [ok |-> TRUE, calls |-> <<add, commit>>, staged |-> add_rc = 0,
                  committed |-> FALSE]
            ELSE [ok |-> FALSE, calls |-> <<add, commit>>, staged |-> add_rc = 0,
                  committed |-> FALSE]
       ELSE [ok |-> TRUE, calls |-> <<add, commit>>, staged |-> add_rc = 0, committed |-> TRUE]

\* stage_and_commit_changes: staged and committed tell which commands took effect
stage_and_commit_changes(add_rc, commit_rc, stderr) ==
    LET add == Call("stage", "git add", add_rc, <<>>, <<>>)
        commit == Call("commit", "git commit", commit_rc, <<>>, stderr)
    IN IF add_rc # 0
       THEN [ok |-> FALSE, calls |-> <<add>>, staged |-> FALSE, committed |-> FALSE]
       ELSE IF commit_rc # 0
            THEN IF is_nothing_to_commit(stderr)
                 THEN [ok |-> TRUE, calls |-> <<add, commit>>, staged |-> TRUE,
                       committed |-> FALSE]
                 ELSE [ok |-> FALSE, calls |-> <<add, commit>>, staged |-> TRUE,
                       committed |-> FALSE]
       ELSE [ok |-> TRUE, calls |-> <<add, commit>>, staged |-> TRUE, committed |-> TRUE]

\* push_changes
push_changes(branch_rc, push_rc) ==
    LET branch == Call("push", "git rev-parse --abbrev-ref HEAD", branch_rc, <<>>, <<>>)
        push == Call("push", "git push", push_rc, <<>>, <<>>)
    IN IF branch_rc # 0 THEN [ok |-> FALSE, calls |-> <<branch>>]
       ELSE IF push_rc # 0 THEN [ok |-> FALSE, calls |-> <<branch, push>>]
       ELSE [ok |-> TRUE, calls |-> <<branch, push>>]

\* ------------------------------------------------------------------ state
VARIABLES
    log_file,     \* the file at log_file_path: [exists, content]
    scaffold,     \* the files written by --init that exist
    index,        \* the log file as staged in the version-control index
    commits,      \* the commits made, oldest first: [message, tree]
    clock,        \* the wall clock
    ticks,        \* how often the clock has advanced
    pc,           \* position of the current run
    prog,         \* entry point of the current run
    today_str,    \* main's today_str
    log_entry,    \* main's log_entry
    already,      \* result of check_if_already_logged_today
    trace,        \* the steps and external commands of the run, in order
    exit_code,    \* the process exit status
    before,       \* the files as they were when the run started
    runs,         \* number of completed runs
    prev,         \* summary of the last completed run
    failed        \* [key, entry] of the completed runs that appended and returned 1

vars == <<log_file, scaffold, index, commits, clock, ticks, pc, prog,
          today_str, log_entry, already, trace, exit_code, before, runs, prev, failed>>

InitialLogFiles ==
    { NoFile,
      [exists |-> TRUE, content |-> <<>>],
      [exists |-> TRUE, content |-> <<"#", " ", "L", "o", "g", LF, "n", "o", "t", "e">>],
      [exists |-> TRUE, content |-> <<"a", CR, LF, "b", CR, LF>>],
      [exists |-> TRUE, content |-> <<"d", "u", "e", " ", "2", "0", "2", "4", "-", "0", "2", "-",
                                      "2", "9", " ", "x", LF>>] }

NoRun == [prog |-> "none", today_str |-> <<>>, appended |-> FALSE, committed |-> FALSE,
          exit_code |-> -1]

Snapshot == [log_file |-> log_file, scaffold |-> scaffold, index |-> index,
             commits |-> Len(commits)]

Init ==
    /\ log_file \in InitialLogFiles
    /\ scaffold = {}
    /\ index = log_file
    /\ commits = <<>>
    /\ clock = StartClock
    /\ ticks = 0
    /\ pc = "idle"
    /\ prog = "none"
    /\ today_str = <<>>
    /\ log_entry = <<>>
    /\ already = FALSE
    /\ trace = <<>>
    /\ exit_code = -1
    /\ before = [log_file |-> log_file, scaffold |-> {}, index |-> log_file, commits |-> 0]
    /\ runs = 0
    /\ prev = NoRun
    /\ failed = {}

files == <<log_file, scaffold>>
repo == <<index, commits>>
time == <<clock, ticks>>
locals == <<today_str, log_entry, already>>
invocation == <<prog, before, runs, prev, failed>>

\* the run has executed step
Did(step) == \E i \in 1..Len(trace) : trace[i].step = step

\* ------------------------------------------------------------------ the clock advances
Tick ==
    /\ ticks < MaxTicks
    /\ clock' = AddSeconds(clock, TickSeconds)
    /\ ticks' = ticks + 1
    /\ UNCHANGED <<files, repo, pc, locals, invocation, trace, exit_code>>

\* ------------------------------------------------------------------ github_daily_logger.py
\* python github_daily_logger.py [--init] [--repo-path P] [--log-file F]:
\* with --init README.md and .gitignore are written when absent, then main is called
StartLogger(init) ==
    /\ pc = "idle"
    /\ runs < MaxRuns
    /\ prog' = "github_daily_logger"
    /\ scaffold' = IF init THEN scaffold \cup {"README.md", ".gitignore"} ELSE scaffold
    /\ before' = Snapshot
    /\ trace' = <<>>
    /\ exit_code' = -1
    /\ today_str' = <<>>
    /\ log_entry' = <<>>
    /\ already' = FALSE
    /\ pc' = "check_git_config"
    /\ UNCHANGED <<log_file, repo, time, runs, prev, failed>>

ConfigReplies ==
    { [rc |-> 0, stdout |-> <<"d", "e", "v">>],
      [rc |-> 0, stdout |-> <<>>],
      [rc |-> 1, stdout |-> <<>>] }

VersionReplies ==
    { [rc |-> 0, stdout |-> <<"g", "i", "t">>],
      [rc |-> 127, stdout |-> <<>>] }

CheckGitConfig ==
    /\ pc = "check_git_config"
    /\ \E version \in VersionReplies, user \in ConfigReplies, email \in ConfigReplies :
          LET r == check_git_config(version, user, email)
          IN /\ trace' = trace \o r.calls
             /\ IF r.ok
                THEN /\ pc' = "resolve"
                     /\ UNCHANGED exit_code
                ELSE /\ pc' = "done"
                     /\ exit_code' = 1
    /\ UNCHANGED <<files, repo, time, locals, invocation>>

\* repo_path is "missing" (given, does not exist), "existing" or "omitted"
ResolveRepo ==
    /\ pc = "resolve"
    /\ \E repo_path \in {"missing", "existing", "omitted"} :
          \/ /\ repo_path = "missing"
             /\ trace' = Append(trace, Step("resolve"))
             /\ pc' = "done"
             /\ exit_code' = 1
          \/ /\ repo_path = "existing"
             /\ trace' = Append(trace, Step("resolve"))
             /\ pc' = "today"
             /\ UNCHANGED exit_code
          \/ /\ repo_path = "omitted"
             /\ \E toplevel_rc \in {0, 128}, remote_rc \in {0, 1}, branch_rc \in {0, 128} :
                   LET r == get_current_repo_info(toplevel_rc, remote_rc, branch_rc)
                   IN /\ trace' = trace \o r.calls
                      /\ IF r.ok
                         THEN /\ pc' = "today"
                              /\ UNCHANGED exit_code
                         ELSE /\ pc' = "done"
                              /\ exit_code' = 1
    /\ UNCHANGED <<files, repo, time, locals, invocation>>

\* today = datetime.date.today(); today_str = today.strftime("%Y-%m-%d")
ReadToday ==
    /\ pc = "today"
    /\ today_str' = strftime_date(clock)
    /\ pc' = "check"
    /\ UNCHANGED <<files, repo, time, log_entry, already, invocation, trace, exit_code>>

\* variant: the run goes on after a positive check
CheckLogged_no_return ==
    /\ pc = "check"
    /\ already' = check_if_already_logged_today(log_file, today_str)
    /\ trace' = Append(trace, Step("check"))
    /\ pc' = "generate"
    /\ UNCHANGED <<files, repo, time, today_str, log_entry, invocation, exit_code>>

CheckLogged ==
    /\ pc = "check"
    /\ already' = check_if_already_logged_today(log_file, today_str)
    /\ trace' = Append(trace, Step("check"))
    /\ IF already'
       THEN /\ pc' = "done"
            /\ exit_code' = 0
       ELSE /\ pc' = "generate"
            /\ UNCHANGED exit_code
    /\ UNCHANGED <<files, repo, time, today_str, log_entry, invocation>>

\* now = datetime.datetime.now() is read here, after today_str
GenerateEntry ==
    /\ pc = "generate"
    /\ \E h \in HashSamples : log_entry' = generate_daily_entry(clock, h)
    /\ trace' = Append(trace, Step("generate"))
    /\ pc' = "append"
    /\ UNCHANGED <<files, repo, time, today_str, already, invocation, exit_code>>

AppendLogger ==
    /\ pc = "append"
    /\ prog = "github_daily_logger"
    /\ log_file' = create_or_update_log_file(log_file, log_entry)
    /\ trace' = Append(trace, Step("append"))
    /\ pc' = "stage_and_commit"
    /\ UNCHANGED <<scaffold, repo, time, locals, invocation, exit_code>>

\* variant: a failed stage or commit restores the log file
StageAndCommit_rollback ==
    /\ pc = "stage_and_commit"
    /\ \E add_rc \in {0, 1}, commit_rc \in {0, 1}, stderr \in StderrSamples :
          LET r == stage_and_commit_changes(add_rc, commit_rc, stderr)
          IN /\ commit_rc = 0 => stderr = <<>>
             /\ trace' = trace \o r.calls
             /\ index' = IF r.staged THEN log_file ELSE index
             /\ commits' = IF r.committed
                           THEN Append(commits, [message |-> commit_message(today_str),
                                                 tree |-> index'])
                           ELSE commits
             /\ IF r.ok
                THEN /\ pc' = "push"
                     /\ UNCHANGED <<exit_code, log_file>>
                ELSE /\ pc' = "done"
                     /\ exit_code' = 1
                     /\ log_file' = before.log_file
    /\ UNCHANGED <<scaffold, time, locals, invocation>>

StageAndCommit ==
    /\ pc = "stage_and_commit"
    /\ \E add_rc \in {0, 1}, commit_rc \in {0, 1}, stderr \in StderrSamples :
          LET r == stage_and_commit_changes(add_rc, commit_rc, stderr)
          IN /\ commit_rc = 0 => stderr = <<>>
             /\ trace' = trace \o r.calls
             /\ index' = IF r.staged THEN log_file ELSE index
             /\ commits' = IF r.committed
                           THEN Append(commits, [message |-> commit_message(today_str),
                                                 tree |-> index'])
                           ELSE commits
             /\ IF r.ok
                THEN /\ pc' = "push"
                     /\ UNCHANGED exit_code
                ELSE /\ pc' = "done"
                     /\ exit_code' = 1
    /\ UNCHANGED <<files, time, locals, invocation>>

PushChanges ==
    /\ pc = "push"
    /\ \E branch_rc \in {0, 128}, push_rc \in {0, 1} :
          LET r == push_changes(branch_rc, push_rc)
          IN /\ trace' = trace \o r.calls
             /\ exit_code' = IF r.ok THEN 0 ELSE 1
    /\ pc' = "done"
    /\ UNCHANGED <<files, repo, time, locals, invocation>>

\* ------------------------------------------------------------------ update_daily_log.py
StartActions ==
    /\ pc = "idle"
    /\ runs < MaxRuns
    /\ prog' = "update_daily_log"
    /\ before' = Snapshot
    /\ trace' = <<>>
    /\ exit_code' = -1
    /\ today_str' = <<>>
    /\ log_entry' = <<>>
    /\ already' = FALSE
    /\ pc' = "today"
    /\ UNCHANGED <<files, repo, time, runs, prev, failed>>

AppendActions ==
    /\ pc = "append"
    /\ prog = "update_daily_log"
    /\ log_file' = actions_create_or_update_log_file(log_file, log_entry)
    /\ trace' = Append(trace, Step("append"))
    /\ pc' = "add"
    /\ UNCHANGED <<scaffold, repo, time, locals, invocation, exit_code>>

ActionsAdd ==
    /\ pc = "add"
    /\ \E add_rc \in {0, 1} :
          /\ trace' = Append(trace, Call("stage", "git add", add_rc, <<>>, <<>>))
          /\ IF add_rc # 0
             THEN /\ pc' = "done"
                  /\ exit_code' = 1
                  /\ UNCHANGED index
             ELSE /\ pc' = "diff"
                  /\ index' = log_file
                  /\ UNCHANGED exit_code
    /\ UNCHANGED <<files, commits, time, locals, invocation>>

ActionsDiff ==
    /\ pc = "diff"
    /\ \E diff_rc \in {0, 1} :
          /\ trace' = Append(trace, Call("diff", "git diff --cached --quiet", diff_rc, <<>>, <<>>))
          /\ IF diff_rc = 0
             THEN /\ pc' = "done"
                  /\ exit_code' = 0
             ELSE /\ pc' = "commit"
                  /\ UNCHANGED exit_code
    /\ UNCHANGED <<files, repo, time, locals, invocation>>

ActionsCommit ==
    /\ pc = "commit"
    /\ \E commit_rc \in {0, 1}, stderr \in StderrSamples :
          /\ commit_rc = 0 => stderr = <<>>
          /\ trace' = Append(trace, Call("commit", "git commit", commit_rc, <<>>, stderr))
          /\ IF commit_rc # 0
             THEN /\ exit_code' = 1
                  /\ UNCHANGED commits
             ELSE /\ exit_code' = 0
                  /\ commits' = Append(commits, [message |-> commit_message(today_str),
                                                 tree |-> index])
    /\ pc' = "done"
    /\ UNCHANGED <<files, index, time, locals, invocation>>

\* ------------------------------------------------------------------ the process exits
EndRun ==
    /\ pc = "done"
    /\ prev' = [prog |-> prog, today_str |-> today_str, appended |-> Did("append"),
                committed |-> \E i \in 1..Len(trace) :
                                 trace[i].cmd = "git commit" /\ trace[i].rc = 0,
                exit_code |-> exit_code]
    /\ failed' = IF Did("append") /\ exit_code = 1
                 THEN failed \cup {[key |-> today_str, entry |-> log_entry]}
                 ELSE failed
    /\ runs' = runs + 1
    /\ pc' = "idle"
    /\ prog' = "none"
    /\ today_str' = <<>>
    /\ log_entry' = <<>>
    /\ already' = FALSE
    /\ trace' = <<>>
    /\ exit_code' = -1
    /\ before' = Snapshot
    /\ UNCHANGED <<files, repo, time>>

Next ==
    \/ Tick
    \/ \E init \in BOOLEAN : StartLogger(init)
    \/ CheckGitConfig
    \/ ResolveRepo
    \/ ReadToday
    \/ CheckLogged
    \/ GenerateEntry
    \/ AppendLogger
    \/ StageAndCommit
    \/ PushChanges
    \/ StartActions
    \/ AppendActions
    \/ ActionsAdd
    \/ ActionsDiff
    \/ ActionsCommit
    \/ EndRun

Spec == Init /\ [][Next]_vars

\* ------------------------------------------------------------------ the functions on their own
UnitDates == {strftime_date(StartClock), strftime_date(AddSeconds(StartClock, TickSeconds))}

UnitPrefixes == {<<>>, <<"x">>, <<"x", LF>>, <<"2", "0", "2", "4", "-">>}

UnitMiddles ==
    UnitDates \cup {<<>>, <<"2", "0", "2", "4", "-", "0", "2", LF, "-", "2", "8">>}

UnitSuffixes == {<<>>, <<LF>>, <<"9">>, <<CR, LF>>, <<CR>>}

UnitFiles ==
    {NoFile} \cup
    {[exists |-> TRUE, content |-> a \o b \o c] :
        a \in UnitPrefixes, b \in UnitMiddles, c \in UnitSuffixes}

UnitEntries ==
    {generate_daily_entry(StartClock, h) : h \in {-1, 7}} \cup {<<"E">>}

UnitInit ==
    /\ log_file \in UnitFiles
    /\ scaffold = {}
    /\ index = log_file
    /\ commits = <<>>
    /\ clock = StartClock
    /\ ticks = 0
    /\ pc = "unit"
    /\ prog \in {"github_daily_logger", "update_daily_log"}
    /\ today_str \in UnitDates
    /\ log_entry \in UnitEntries
    /\ already = FALSE
    /\ trace = <<>>
    /\ exit_code = -1
    /\ before = [log_file |-> log_file, scaffold |-> {}, index |-> log_file, commits |-> 0]
    /\ runs = 0
    /\ prev = NoRun
    /\ failed = {}

\* check_if_already_logged_today(log_file_path, today_str)
UnitCheck ==
    /\ pc = "unit"
    /\ already' = check_if_already_logged_today(log_file, today_str)
    /\ pc' = "checked"
    /\ UNCHANGED <<files, repo, time, today_str, log_entry, invocation, trace, exit_code>>

\* create_or_update_log_file(log_file_path, log_entry), of either program
UnitAppend ==
    /\ pc = "unit"
    /\ log_file' = IF prog = "github_daily_logger"
                   THEN create_or_update_log_file(log_file, log_entry)
                   ELSE actions_create_or_update_log_file(log_file, log_entry)
    /\ pc' = "appended"
    /\ UNCHANGED <<scaffold, repo, time, locals, invocation, trace, exit_code>>

UnitNext == UnitCheck \/ UnitAppend

UnitSpec == UnitInit /\ [][UnitNext]_vars

\* ------------------------------------------------------------------ properties
\* needle occurs in hay, character by character
Occurs(needle, hay) ==
    \E i \in 0..Len(hay) :
        /\ i + Len(needle) <= Len(hay)
        /\ \A k \in 1..Len(needle) : hay[i + k] = needle[k]

IsPrefix(s, t) == Len(s) <= Len(t) /\ \A k \in 1..Len(s) : t[k] = s[k]

\* the run has invoked no stage, commit or push command
NoVcsWrite == \A i \in 1..Len(trace) : trace[i].cmd \notin {"git add", "git commit", "git push"}

\* number of commits whose message names date D
CommitsFor(D) ==
    Cardinality({i \in 1..Len(commits) : commits[i].message = CommitMessagePrefix \o D})

\* a run has ended that had the same date as the run before it, which had appended
SecondRunSameDate ==
    /\ pc = "done"
    /\ Did("check")
    /\ prev.appended
    /\ today_str = prev.today_str

\* C1 as stated: after two runs on one date there is exactly one commit for the
\* date and the second run changed nothing and returned 0, whatever the first
\* run's stage, commit and push steps did.
C1_Original ==
    SecondRunSameDate =>
        /\ CommitsFor(today_str) = 1
        /\ exit_code = 0
        /\ log_file = before.log_file
        /\ NoVcsWrite

\* C1 amended: a second run on the date of a run that appended changes nothing,
\* invokes no stage, commit or push and returns 0; the date has one commit if the
\* first run's commit command exited 0 and none otherwise.
C1_Amended ==
    SecondRunSameDate =>
        /\ exit_code = 0
        /\ already
        /\ log_file = before.log_file
        /\ NoVcsWrite
        /\ Len(commits) = before.commits
        /\ CommitsFor(today_str) = IF prev.committed THEN 1 ELSE 0

C1_Witness == SecondRunSameDate /\ prev.committed /\ prev.exit_code = 0

\* C2: no two commits carry the same date key: each date has at most one
\* append+commit cycle.
C2_AtMostOneCycle ==
    \A i, j \in 1..Len(commits) : commits[i].message = commits[j].message => i = j

C2_Witness ==
    /\ Len(commits) = 2
    /\ commits[1].message # commits[2].message
    /\ Occurs(commits[1].tree.content, commits[2].tree.content)

\* the commit command exited non-zero with "nothing to commit" on standard error
BenignCommitFailure ==
    \E i \in 1..Len(trace) :
        /\ trace[i].cmd = "git commit"
        /\ trace[i].rc # 0
        /\ Occurs(NothingToCommit, trace[i].stderr)

\* C3 as stated: a commit that exits non-zero with "nothing to commit" on stderr
\* makes the run return 0, in both programs and whatever the later steps do.
C3_Original == (pc = "done" /\ BenignCommitFailure) => exit_code = 0

\* C3 amended: in github_daily_logger such a commit counts as success, the run
\* goes on to push and returns 0 exactly when the push succeeds; in
\* update_daily_log every non-zero commit exit code makes the run return 1.
C3_Amended ==
    (pc = "done" /\ BenignCommitFailure) =>
        IF prog = "github_daily_logger"
        THEN /\ Did("push")
             /\ exit_code \in {0, 1}
             /\ exit_code = 0 <=> (trace[Len(trace)].cmd = "git push" /\ trace[Len(trace)].rc = 0)
        ELSE exit_code = 1

C3_Witness ==
    /\ pc = "done"
    /\ BenignCommitFailure
    /\ prog = "github_daily_logger"
    /\ exit_code = 0

\* the run ended in the preflight: client missing, or identity name or email unset
PreflightFailed ==
    /\ pc = "done"
    /\ prog = "github_daily_logger"
    /\ \E i \in 1..Len(trace) :
          /\ trace[i].step = "preflight"
          /\ trace[i].rc # 0 \/ trace[i].stdout = <<>>

\* C4 as stated: a run that fails the preflight exits 1 before any file on disk
\* is mutated and without a stage, commit or push, also with --init.
C4_Original ==
    PreflightFailed =>
        /\ exit_code = 1
        /\ log_file = before.log_file
        /\ scaffold = before.scaffold
        /\ NoVcsWrite

\* C4 amended: a run that fails the preflight exits 1 with the log file, the index
\* and the history untouched and no stage, commit or push invoked; with --init
\* README.md and .gitignore have been written before the preflight.
C4_Amended ==
    PreflightFailed =>
        /\ exit_code = 1
        /\ log_file = before.log_file
        /\ index = before.index
        /\ Len(commits) = before.commits
        /\ NoVcsWrite
        /\ ~Did("append")
        /\ before.scaffold \subseteq scaffold
        /\ scaffold \subseteq before.scaffold \cup {"README.md", ".gitignore"}

C4_Witness ==
    /\ PreflightFailed
    /\ Len(trace) = 3
    /\ trace[2].stdout = <<>>
    /\ scaffold # before.scaffold

\* C5: the check returns true exactly when the file exists and its content
\* contains the date anywhere, and it leaves the file as it was.
C5_CheckIffContains ==
    pc = "checked" =>
        /\ already = (before.log_file.exists /\ Occurs(today_str, before.log_file.content))
        /\ log_file = before.log_file

C5_Witness ==
    /\ pc = "checked"
    /\ already
    /\ ~IsPrefix(today_str, log_file.content)
    /\ ~endswith(log_file.content, LF)

\* the text of the log file before the append, as the program reads it
OldText == IF before.log_file.exists THEN read_text(before.log_file) ELSE <<>>

\* C6 as stated: appending E to content that does not end in a newline, empty
\* content and a missing file included, gives the content, one newline, E, one newline.
C6_Original ==
    (pc = "appended" /\ ~endswith(OldText, LF)) =>
        log_file.content = OldText \o <<LF>> \o log_entry \o <<LF>>

\* C6 amended: for non-empty content that does not end in a newline the file
\* becomes the content, one newline, E, one newline; for empty content, and for a
\* missing file in github_daily_logger, it becomes E and one newline with no
\* newline before E; update_daily_log starts a missing file with its header.
C6_Amended ==
    pc = "appended" =>
        /\ log_file.exists
        /\ (OldText # <<>> /\ ~endswith(OldText, LF)) =>
              log_file.content = OldText \o <<LF>> \o log_entry \o <<LF>>
        /\ (before.log_file.exists /\ OldText = <<>>) =>
              log_file.content = log_entry \o <<LF>>
        /\ (~before.log_file.exists /\ prog = "github_daily_logger") =>
              log_file.content = log_entry \o <<LF>>
        /\ (~before.log_file.exists /\ prog = "update_daily_log") =>
              log_file.content = ActionsHeader \o log_entry \o <<LF>>

C6_Witness ==
    /\ pc = "appended"
    /\ OldText # <<>>
    /\ ~endswith(OldText, LF)
    /\ Len(log_entry) > 1

\* C7: the content the log file had when a run started is a prefix of its
\* content at every later point of the run, and the file is never removed.
C7_AppendOnly ==
    /\ before.log_file.exists => log_file.exists
    /\ IsPrefix(before.log_file.content, log_file.content)

\* C8: the generated entry embeds the date the run uses as its idempotency key,
\* so that after the append the check for that key finds it in the file.
C8_EntryEmbedsKey ==
    /\ log_entry # <<>> => Occurs(today_str, log_entry)
    /\ Did("append") => Occurs(today_str, log_file.content)

\* C9: a run whose idempotency check returned true leaves the log file, the index
\* and the history as they were, invokes no stage, commit or push and returns 0.
C9_SkipIsNoOp ==
    (pc = "done" /\ already) =>
        /\ log_file = before.log_file
        /\ index = before.index
        /\ Len(commits) = before.commits
        /\ NoVcsWrite
        /\ ~Did("generate") /\ ~Did("append")
        /\ exit_code = 0

C9_Witness == pc = "done" /\ already /\ prev.appended /\ today_str = prev.today_str

\* position of a step in the order of main
Rank(step) ==
    CASE step = "preflight" -> 1
      [] step = "resolve" -> 2
      [] step = "check" -> 3
      [] step = "generate" -> 4
      [] step = "append" -> 5
      [] step = "stage" -> 6
      [] step = "diff" -> 7
      [] step = "commit" -> 8
      [] step = "push" -> 9

\* the steps of each program, in order
StepsOf(p) ==
    IF p = "github_daily_logger"
    THEN <<"preflight", "resolve", "check", "generate", "append", "stage", "commit", "push">>
    ELSE <<"check", "generate", "append", "stage", "diff", "commit">>

\* a command that failed: non-zero exit code, other than the "nothing to commit"
\* case of the commit and the answer of git diff --quiet; or an empty identity
FailedCall(c) ==
    \/ /\ c.rc # 0
       /\ c.step # "diff"
       /\ ~(c.cmd = "git commit" /\ Occurs(NothingToCommit, lower(c.stderr)))
    \/ c.step = "preflight" /\ c.stdout = <<>>

\* C10: the steps run in the order of main, none is skipped, a failed step is the
\* last one and ends the run with exit code 1, and a run returns 0 only after a
\* skip or after its last step succeeded.
C10_LinearShortCircuit ==
    /\ \A i, j \in 1..Len(trace) : i < j => Rank(trace[i].step) <= Rank(trace[j].step)
    /\ \A k \in 2..Len(StepsOf(prog)) : Did(StepsOf(prog)[k]) => Did(StepsOf(prog)[k - 1])
    /\ \A i \in 1..Len(trace) :
          FailedCall(trace[i]) =>
              /\ pc = "done"
              /\ exit_code = 1
              /\ \A j \in i..Len(trace) : trace[j].step = trace[i].step
    /\ pc = "done" => exit_code \in {0, 1}
    /\ (pc = "done" /\ exit_code = 0) =>
          \/ already
          \/ /\ \A i \in 1..Len(trace) : ~FailedCall(trace[i])
             /\ Did("stage")

C10_Witness ==
    /\ pc = "done"
    /\ prog = "github_daily_logger"
    /\ exit_code = 1
    /\ trace[Len(trace)].cmd = "git add"
    /\ trace[Len(trace)].rc # 0

\* a run has ended that read the date of an earlier run which appended and returned 1
LaterRunSameDate ==
    /\ pc = "done"
    /\ Did("check")
    /\ \E f \in failed : f.key = today_str

\* C11: the entry of a run that appended and then returned 1 stays in the log
\* file, and every later run that reads the same date skips: it returns 0, leaves
\* the file as it was and invokes no stage, commit or push.
C11_NoRollbackNoRetry ==
    /\ (pc = "done" /\ Did("append") /\ exit_code = 1) =>
          /\ log_file.exists
          /\ Occurs(log_entry \o <<LF>>, log_file.content)
          /\ Len(log_file.content) > Len(before.log_file.content)
    /\ \A f \in failed : log_file.exists /\ Occurs(f.entry \o <<LF>>, log_file.content)
    /\ LaterRunSameDate =>
          /\ already
          /\ exit_code = 0
          /\ log_file = before.log_file
          /\ index = before.index
          /\ Len(commits) = before.commits
          /\ NoVcsWrite

C11_Witness ==
    /\ LaterRunSameDate
    /\ already
    /\ \E f \in failed : f.key = today_str /\ CommitsFor(f.key) = 0

====
